---- MODULE Spec2Model ----
(***************************************************************************)
(* Model of src/my-game-project/src/App.tsx: the Arkanoid frame loop, the  *)
(* hand-sample smoother, the reset and menu actions, and React's commit of *)
(* the queued state updates.                                               *)
(*                                                                         *)
(* Numbers: the source computes in IEEE doubles.  The model computes in    *)
(* fixed point, UNIT steps per pixel, rounding every product or quotient   *)
(* to the nearest step.  Math.sin, Math.cos and Math.sqrt are computed     *)
(* (Taylor series, integer square root), not assumed.                      *)
(*                                                                         *)
(* React: score, gameState and blocks are React state.  A setter called    *)
(* from the frame callback queues an update (pending); Commit is the       *)
(* re-render that applies the queue and re-runs the animation effect       *)
(* (deps [gameState, blocks, score]).  The frame callback closes over the  *)
(* committed blocks, so a callback that fires before Commit still sees the *)
(* blocks of the previous render.  A click handler's updates are rendered  *)
(* synchronously, together with whatever is queued.                        *)
(***************************************************************************)
EXTENDS Integers, Sequences, FiniteSets, TLC

---------------------------------------------------------------------------
(* Program constants (App.tsx lines 7-23), in pixels                       *)

WIDTH == 600
HEIGHT == 400
PLATFORM_WIDTH == 100
PLATFORM_HEIGHT == 10
BALL_SIZE == 10
BALL_SPEED == 5
HAND_HISTORY_SIZE == 5
BLOCK_WIDTH == 55
BLOCK_HEIGHT == 20
BLOCK_ROWS == 5
BLOCK_COLS == 10
\* gap between blocks (line 55: BLOCK_WIDTH + 5, line 56: BLOCK_HEIGHT + 5)
BLOCK_GAP == 5
\* top margin of the grid (line 56: ... + 30)
BLOCK_TOP == 30
\* SMOOTHING_FACTOR = 0.3 as the fraction SMOOTHING_NUM / SMOOTHING_DEN
SMOOTHING_NUM == 3
SMOOTHING_DEN == 10

\* fixed-point steps per pixel (the resolution of a `number`)
UNIT == 100
\* fixed-point steps per radian and per unit of sin/cos
TRIG == 10000
\* Math.PI / 3 in TRIG steps
PI_THIRD == 10472

PLATFORM_Y == HEIGHT - PLATFORM_HEIGHT - 10

---------------------------------------------------------------------------
(* Bounds of the model                                                     *)

\* frames simulated in one session (since the last resetGame)
MaxTicks == 112
\* hand samples delivered in one run of the full game
MaxSamples == 1
\* frames that may run between a queued update and the render that commits it
MaxStale == 1
\* hand samples pushed in the smoother specification
MaxPush == 6

---------------------------------------------------------------------------
(* Arithmetic                                                              *)

Abs(a) == IF a < 0 THEN -a ELSE a

Max(a, b) == IF a >= b THEN a ELSE b

Min(a, b) == IF a <= b THEN a ELSE b

\* a / b rounded to the nearest integer (b > 0): one rounded float operation
RoundDiv(a, b) == (2 * a + b) \div (2 * b)

\* Math.sqrt(n), rounded to the nearest integer
Sqrt(n) ==
  LET f == CHOOSE s \in 0..(20 * UNIT) : s * s <= n /\ (s + 1) * (s + 1) > n
  IN IF n - f * f <= (f + 1) * (f + 1) - n THEN f ELSE f + 1

\* Math.sin(a), a and the result in TRIG steps, |a| <= 1.2 rad
Sin(a) ==
  LET a2 == RoundDiv(a * a, TRIG)
      t3 == RoundDiv(a * a2, TRIG)
      t5 == RoundDiv(t3 * a2, TRIG)
      t7 == RoundDiv(t5 * a2, TRIG)
  IN a - RoundDiv(t3, 6) + RoundDiv(t5, 120) - RoundDiv(t7, 5040)

\* Math.cos(a), a and the result in TRIG steps, |a| <= 1.2 rad
Cos(a) ==
  LET a2 == RoundDiv(a * a, TRIG)
      t4 == RoundDiv(a2 * a2, TRIG)
      t6 == RoundDiv(t4 * a2, TRIG)
      t8 == RoundDiv(t6 * a2, TRIG)
  IN TRIG - RoundDiv(a2, 2) + RoundDiv(t4, 24) - RoundDiv(t6, 720)
          + RoundDiv(t8, 40320)

RECURSIVE Sum(_)
\* handHistory.reduce((a, b) => a + b, 0)
Sum(s) == IF s = <<>> THEN 0 ELSE Head(s) + Sum(Tail(s))

---------------------------------------------------------------------------
(* State                                                                   *)

VARIABLES
  gameState,          \* useState: "menu", "playing", "gameover", "victory"
  score,              \* useState: committed score
  blocks,             \* useState: committed blocks, blocks[i] = isDestroyed
  pending,            \* state updates queued by setters, not yet rendered
  ballRef,            \* ballRef.current: [x, y, dx, dy] in UNIT steps
  platformXRef,       \* platformXRef.current, in UNIT steps
  targetXRef,         \* targetXRef.current, in UNIT steps
  handHistory,        \* handHistory.current, samples in UNIT steps
  avgX,               \* the last avgX computed by onResults (line 82)
  animationFrameRef,  \* animationFrameRef.current: the last id requested
  rafQueue,           \* frame callbacks requested and neither run nor cancelled
  ticks,              \* history: frames run since the last resetGame
  delivered,          \* history: pose results delivered to onResults
  handless,           \* history: pose results delivered without a right hand
  stale,              \* history: frames run since an update was queued and not rendered
  resetFrom,          \* history: the gameState the last resetGame was called in
  pushed              \* history: every sample pushed into handHistory

vars == <<gameState, score, blocks, pending, ballRef, platformXRef,
          targetXRef, handHistory, avgX, animationFrameRef, rafQueue,
          ticks, delivered, handless, stale, resetFrom, pushed>>

GameStates == {"menu", "playing", "gameover", "victory"}

\* pixels to UNIT steps
Px(n) == n * UNIT

\* half of n pixels, in UNIT steps (n / 2 in the source)
HalfPx(n) == (n * UNIT) \div 2

NBlocks == BLOCK_ROWS * BLOCK_COLS

\* position of the i-th block of the flattened grid (1-based), in UNIT steps
BlockX(i) == Px(((i - 1) % BLOCK_COLS) * (BLOCK_WIDTH + BLOCK_GAP))

BlockY(i) == Px(((i - 1) \div BLOCK_COLS) * (BLOCK_HEIGHT + BLOCK_GAP) + BLOCK_TOP)

\* initBlocks(): every block of the grid, isDestroyed = false
initBlocks == [i \in 1..NBlocks |-> FALSE]

\* the ball literal of lines 46 and 64
InitialBall ==
  [x |-> HalfPx(WIDTH), y |-> HalfPx(HEIGHT), dx |-> Px(BALL_SPEED), dy |-> -Px(BALL_SPEED)]

\* WIDTH / 2 - PLATFORM_WIDTH / 2 of lines 43 and 65
InitialPlatformX == HalfPx(WIDTH) - HalfPx(PLATFORM_WIDTH)

\* an empty update queue
NoPending == [hasBlocks |-> FALSE, blocks |-> <<>>, score |-> 0, gameState |-> "none"]

Init ==
  /\ gameState = "menu"
  /\ score = 0
  /\ blocks = <<>>
  /\ pending = NoPending
  /\ ballRef = InitialBall
  /\ platformXRef = InitialPlatformX
  /\ targetXRef = InitialPlatformX
  /\ handHistory = <<>>
  /\ avgX = 0
  /\ animationFrameRef = 0
  /\ rafQueue = {}
  /\ ticks = 0
  /\ delivered = 0
  /\ handless = 0
  /\ stale = 0
  /\ resetFrom = "none"
  /\ pushed = <<>>

---------------------------------------------------------------------------
(* The frame step: animate, lines 126-228                                  *)

\* line 127: platformXRef.current += (target - current) * SMOOTHING_FACTOR
MovePlatform(p, t) == p + RoundDiv((t - p) * SMOOTHING_NUM, SMOOTHING_DEN)

\* mutant of Integrate: the vertical velocity is subtracted
Integrate_YDown(b) == [b EXCEPT !.x = b.x + b.dx, !.y = b.y - b.dy]

\* lines 129-130: the ball moves by its velocity
Integrate(b) == [b EXCEPT !.x = b.x + b.dx, !.y = b.y + b.dy]

\* lines 132-137: the side walls negate dx, the top wall negates dy
WallReflect(b) ==
  LET dx1 == IF b.x <= 0 \/ b.x + Px(BALL_SIZE) >= Px(WIDTH) THEN -b.dx ELSE b.dx
      dy1 == IF b.y <= 0 THEN -b.dy ELSE b.dy
  IN [b EXCEPT !.dx = dx1, !.dy = dy1]

\* lines 139-141: the ball has reached the paddle's top and overlaps it sideways
PaddleHit(b, p) ==
  /\ b.y + Px(BALL_SIZE) >= Px(PLATFORM_Y)
  /\ b.x + Px(BALL_SIZE) >= p
  /\ b.x <= p + Px(PLATFORM_WIDTH)

\* mutant of HitPoint: measured from the ball's left edge, not its centre
HitPoint_FromLeftEdge(b, p) == b.x - (p + HalfPx(PLATFORM_WIDTH))

\* line 142: ball centre minus paddle centre
HitPoint(b, p) == (b.x + HalfPx(BALL_SIZE)) - (p + HalfPx(PLATFORM_WIDTH))

\* lines 143-144: normalized * (Math.PI / 3), in TRIG steps
HitAngle(b, p) == RoundDiv(HitPoint(b, p) * PI_THIRD, HalfPx(PLATFORM_WIDTH))

\* line 145: the ball's speed
Speed(b) == Sqrt(b.dx * b.dx + b.dy * b.dy)

\* lines 142-148: the rebound off the paddle
PaddleBounce(b, p) ==
  LET angle == HitAngle(b, p)
      speed == Speed(b)
  IN [x |-> b.x,
      y |-> Px(PLATFORM_Y) - Px(BALL_SIZE),
      dx |-> RoundDiv(speed * Sin(angle), TRIG),
      dy |-> -Abs(RoundDiv(speed * Cos(angle), TRIG))]

\* lines 139-149
PaddleCollide(b, p) == IF PaddleHit(b, p) THEN PaddleBounce(b, p) ELSE b

\* lines 154-157: the ball's box overlaps the i-th block's box
Overlaps(b, i) ==
  /\ b.x + Px(BALL_SIZE) > BlockX(i)
  /\ b.x < BlockX(i) + Px(BLOCK_WIDTH)
  /\ b.y + Px(BALL_SIZE) > BlockY(i)
  /\ b.y < BlockY(i) + Px(BLOCK_HEIGHT)

\* lines 159-169: ball centre minus block centre
CenterDx(b, i) == (b.x + HalfPx(BALL_SIZE)) - (BlockX(i) + HalfPx(BLOCK_WIDTH))

CenterDy(b, i) == (b.y + HalfPx(BALL_SIZE)) - (BlockY(i) + HalfPx(BLOCK_HEIGHT))

\* lines 170-171
HalfW == HalfPx(BALL_SIZE + BLOCK_WIDTH)

HalfH == HalfPx(BALL_SIZE + BLOCK_HEIGHT)

\* lines 153-157 and 175: the i-th block of bl is hit by ball b
BlockHit(b, bl, i) ==
  /\ ~bl[i]
  /\ Overlaps(b, i)
  /\ Abs(CenterDx(b, i)) <= HalfW
  /\ Abs(CenterDy(b, i)) <= HalfH

\* mutant of Reflect: the cross products are compared by magnitude
Reflect_AbsCross(b, i) ==
  IF HalfW * Abs(CenterDy(b, i)) > HalfH * Abs(CenterDx(b, i))
    THEN [b EXCEPT !.dy = -b.dy]
    ELSE [b EXCEPT !.dx = -b.dx]

\* lines 172-180: crossWidth > crossHeight negates dy, otherwise dx
Reflect(b, i) ==
  IF HalfW * CenterDy(b, i) > HalfH * CenterDx(b, i)
    THEN [b EXCEPT !.dy = -b.dy]
    ELSE [b EXCEPT !.dx = -b.dx]

\* the blocks of bl the ball b hits (the ball does not move during the map)
HitSet(b, bl) == {i \in 1..Len(bl) : BlockHit(b, bl, i)}

\* the least index of a non-empty set of block indices
First(hits) == CHOOSE i \in hits : \A j \in hits : i <= j

RECURSIVE ReflectAll(_, _)
\* lines 176-180 for every hit block, in the array's order
ReflectAll(b, hits) ==
  IF hits = {} THEN b
  ELSE ReflectAll(Reflect(b, First(hits)), hits \ {First(hits)})

\* lines 151-187: blocks.map: every hit block reflects the ball, is counted
\* and is replaced by a destroyed copy
BlockPass(b, bl) ==
  LET hits == HitSet(b, bl)
  IN [ball |-> ReflectAll(b, hits),
      blocks |-> [i \in 1..Len(bl) |-> bl[i] \/ i \in hits],
      destroyedCount |-> Cardinality(hits)]

\* lines 129-187: the ball after the frame, the updated blocks, the count
Step(b, p, bl) == BlockPass(PaddleCollide(WallReflect(Integrate(b)), p), bl)

\* line 194: updatedBlocks.every(block => block.isDestroyed)
AllDestroyed(bl) == \A i \in 1..Len(bl) : bl[i]

\* line 199
Fell(b) == b.y > Px(HEIGHT)

\* mutant of QueueFrame: ten points a frame, however many blocks it destroyed
QueueFrame_TenPerFrame(q, r) ==
  LET q1 == IF r.destroyedCount > 0
              THEN [q EXCEPT !.hasBlocks = TRUE, !.blocks = r.blocks,
                             !.score = q.score + 10]
              ELSE q
  IN IF AllDestroyed(r.blocks) THEN [q1 EXCEPT !.gameState = "victory"]
     ELSE IF Fell(r.ball) THEN [q1 EXCEPT !.gameState = "gameover"]
     ELSE q1

\* lines 189-201: the updates the frame queues on top of queue q
QueueFrame(q, r) ==
  LET q1 == IF r.destroyedCount > 0
              THEN [q EXCEPT !.hasBlocks = TRUE, !.blocks = r.blocks,
                             !.score = q.score + r.destroyedCount * 10]
              ELSE q
  IN IF AllDestroyed(r.blocks) THEN [q1 EXCEPT !.gameState = "victory"]
     ELSE IF Fell(r.ball) THEN [q1 EXCEPT !.gameState = "gameover"]
     ELSE q1

\* mutant of Stops: the return of line 201 is missing
Stops_NoReturnOnFall(r) == AllDestroyed(r.blocks)

\* lines 194-202: the frame returns without requesting another one
Stops(r) == AllDestroyed(r.blocks) \/ Fell(r.ball)

\* requestAnimationFrame's return value: an id no pending callback and no
\* stored handle uses
FreshId(q, ref) ==
  CHOOSE n \in 1..(Cardinality(q) + 2) : n # ref /\ \A c \in q : c.id # n

\* the requestAnimationFrame callback animate, closed over the blocks cb.blocks
Animate(cb) ==
  /\ cb \in rafQueue
  /\ \E p \in {MovePlatform(platformXRef, targetXRef)} :
       \E r \in {Step(ballRef, p, cb.blocks)} :
         LET rest == rafQueue \ {cb}
             id == FreshId(rest, animationFrameRef)
         IN /\ platformXRef' = p
            /\ ballRef' = r.ball
            /\ pending' = QueueFrame(pending, r)
            /\ IF Stops(r)
                 THEN /\ rafQueue' = rest
                      /\ UNCHANGED animationFrameRef
                 ELSE /\ rafQueue' = rest \cup {[id |-> id, blocks |-> cb.blocks]}
                      /\ animationFrameRef' = id
  /\ ticks' = ticks + 1
  /\ stale' = IF pending = NoPending THEN 0 ELSE stale + 1
  /\ UNCHANGED <<gameState, score, blocks, targetXRef, handHistory, avgX,
                 delivered, handless, resetFrom, pushed>>

---------------------------------------------------------------------------
(* React: the re-render and the animation effect, lines 118-235            *)

\* line 233: cancelAnimationFrame(animationFrameRef.current)
Cancel(q, ref) == {c \in q : c.id # ref}

\* mutant of Cleanup: the effect returns no cleanup, nothing is cancelled
Cleanup_NoCancel(q, ref, prevState) == q

\* lines 232-234: the cleanup of the effect of the previous render; that
\* effect registered one only if it got past line 119
Cleanup(q, ref, prevState) == IF prevState = "playing" THEN Cancel(q, ref) ELSE q

\* the render that commits gs, bl, sc: the previous effect's cleanup runs,
\* then the effect of lines 118-230 with the new values
Render(gs, bl, sc) ==
  LET q == Cleanup(rafQueue, animationFrameRef, gameState)
      id == FreshId(q, animationFrameRef)
  IN /\ gameState' = gs
     /\ blocks' = bl
     /\ score' = sc
     /\ pending' = NoPending
     /\ stale' = 0
     /\ IF gs = "playing"
          THEN /\ rafQueue' = q \cup {[id |-> id, blocks |-> bl]}
               /\ animationFrameRef' = id
          ELSE /\ rafQueue' = q
               /\ UNCHANGED animationFrameRef

\* the queue q applied to the committed state
QueuedState(q) == IF q.gameState = "none" THEN gameState ELSE q.gameState

QueuedBlocks(q) == IF q.hasBlocks THEN q.blocks ELSE blocks

QueuedScore(q) == score + q.score

\* React renders the updates the frame callback queued
Commit ==
  /\ pending # NoPending
  /\ Render(QueuedState(pending), QueuedBlocks(pending), QueuedScore(pending))
  /\ UNCHANGED <<ballRef, platformXRef, targetXRef, handHistory, avgX,
                 ticks, delivered, handless, resetFrom, pushed>>

---------------------------------------------------------------------------
(* The buttons                                                             *)

\* lines 252 and 278: the buttons bound to resetGame are rendered
ResetOffered == gameState \in {"menu", "gameover", "victory"}

\* mutant of ResetGame: line 66 is missing, the target keeps its old value
ResetGame_KeepsTarget ==
  /\ ResetOffered
  /\ ballRef' = InitialBall
  /\ platformXRef' = InitialPlatformX
  /\ Render("playing", initBlocks, 0)
  /\ ticks' = 0
  /\ resetFrom' = gameState
  /\ UNCHANGED <<targetXRef, handHistory, avgX, delivered, handless, pushed>>

\* lines 62-69: resetGame, from Start Game (line 258) or Play Again (line 294)
ResetGame ==
  /\ ResetOffered
  /\ ballRef' = InitialBall
  /\ platformXRef' = InitialPlatformX
  /\ targetXRef' = InitialPlatformX
  /\ Render("playing", initBlocks, 0)
  /\ ticks' = 0
  /\ resetFrom' = gameState
  /\ UNCHANGED <<handHistory, avgX, delivered, handless, pushed>>

\* mutant of MenuOffered: the button is rendered in every state
MenuOffered_InEveryState == TRUE

\* line 327: the Back to Menu button is rendered
MenuOffered == gameState = "playing"

\* mutant of BackToMenu: the click also clears the score
BackToMenu_ResetsScore ==
  /\ MenuOffered
  /\ Render("menu", QueuedBlocks(pending), 0)
  /\ UNCHANGED <<ballRef, platformXRef, targetXRef, handHistory, avgX,
                 ticks, delivered, handless, resetFrom, pushed>>

\* line 330: onClick={() => setGameState('menu')}
BackToMenu ==
  /\ MenuOffered
  /\ Render("menu", QueuedBlocks(pending), QueuedScore(pending))
  /\ UNCHANGED <<ballRef, platformXRef, targetXRef, handHistory, avgX,
                 ticks, delivered, handless, resetFrom, pushed>>

---------------------------------------------------------------------------
(* The hand samples: onResults, lines 71-86                                *)

\* mutant of Push: the shift of lines 78-80 is missing
Push_NoShift(h, x) == Append(h, x)

\* lines 77-80: push, then shift when longer than HAND_HISTORY_SIZE
Push(h, x) ==
  LET h1 == Append(h, x)
  IN IF Len(h1) > HAND_HISTORY_SIZE THEN Tail(h1) ELSE h1

\* line 82: the mean of the samples held
Average(h) == RoundDiv(Sum(h), Len(h))

\* mutant of Target: the clamp of line 83 is missing
Target_NoClamp(a) == a - HalfPx(PLATFORM_WIDTH)

\* line 83: Math.max(0, Math.min(WIDTH - PLATFORM_WIDTH, avgX - PLATFORM_WIDTH / 2))
Target(a) == Max(0, Min(Px(WIDTH - PLATFORM_WIDTH), a - HalfPx(PLATFORM_WIDTH)))

\* mutant of Accepts: onResults does not look at gameState
Accepts_InEveryState == TRUE

\* line 72: the guard of onResults, closed over the committed gameState
Accepts == gameState = "playing"

\* a pose result with the right hand at x (rightHand.x * WIDTH, in UNIT steps)
OnResults(x) ==
  /\ delivered' = delivered + 1
  /\ IF Accepts
       THEN /\ handHistory' = Push(handHistory, x)
            /\ avgX' = Average(handHistory')
            /\ targetXRef' = Target(avgX')
            /\ pushed' = Append(pushed, x)
       ELSE UNCHANGED <<handHistory, avgX, targetXRef, pushed>>
  /\ UNCHANGED <<gameState, score, blocks, pending, ballRef, platformXRef,
                 animationFrameRef, rafQueue, ticks, handless, stale, resetFrom>>

\* mutant of OnResultsNoHand: a missing landmark is read as x = 0 and pushed
OnResultsNoHand_PushesZero ==
  /\ delivered' = delivered + 1
  /\ handless' = handless + 1
  /\ IF Accepts
       THEN /\ handHistory' = Push(handHistory, 0)
            /\ avgX' = Average(handHistory')
            /\ targetXRef' = Target(avgX')
            /\ pushed' = Append(pushed, 0)
       ELSE UNCHANGED <<handHistory, avgX, targetXRef, pushed>>
  /\ UNCHANGED <<gameState, score, blocks, pending, ballRef, platformXRef,
                 animationFrameRef, rafQueue, ticks, stale, resetFrom>>

\* lines 72-74: a pose result without poseLandmarks, or without landmark 16:
\* onResults falls through both ifs
OnResultsNoHand ==
  /\ delivered' = delivered + 1
  /\ handless' = handless + 1
  /\ UNCHANGED <<gameState, score, blocks, pending, ballRef, platformXRef,
                 targetXRef, handHistory, avgX, animationFrameRef, rafQueue,
                 ticks, stale, resetFrom, pushed>>

---------------------------------------------------------------------------
(* The game from construction                                              *)

\* hand positions the pose estimator reports (rightHand.x * WIDTH), in pixels:
\* left of the field and right of the field
Samples == {-60, 660}

\* the browser runs a requested frame callback; React renders a queued update
\* before more than MaxStale further frames have run
Frame ==
  /\ ticks < MaxTicks
  /\ pending # NoPending => stale < MaxStale
  /\ \E cb \in rafQueue : Animate(cb)

\* the pose estimator delivers a result, with or without a right hand
Pose ==
  /\ delivered < MaxSamples
  /\ \/ \E x \in Samples : OnResults(Px(x))
     \/ OnResultsNoHand

Next == Frame \/ Commit \/ ResetGame \/ BackToMenu \/ Pose

Spec == Init /\ [][Next]_vars

---------------------------------------------------------------------------
(* The end of a game: a late snapshot of a session, few blocks left.  The   *)
(* snapshot is a rendered Playing state: nothing queued, one frame callback *)
(* requested, ten points scored for each destroyed block, the ball below    *)
(* the bottom row at the launch speed, on and off the 5-pixel lattice (a    *)
(* paddle rebound leaves the lattice).                                      *)

\* frames simulated from a late snapshot, and in a session restarted from it
MaxEndTicks == 8

\* the blocks left: one, two side by side, two one above the other
EndgameFields == {{46}, {46, 47}, {36, 46}}

\* where the ball is, just below the bottom row, in pixels
EndgameBallX == {330, 335, 337, 340, 345, 350, 355, 360}

\* ten pixels below the bottom row
EndgameBallY == BLOCK_TOP + BLOCK_ROWS * (BLOCK_HEIGHT + BLOCK_GAP) + BLOCK_GAP

InitEndgame ==
  /\ gameState = "playing"
  /\ \E alive \in EndgameFields :
       /\ blocks = [i \in 1..NBlocks |-> i \notin alive]
       /\ score = 10 * (NBlocks - Cardinality(alive))
  /\ pending = NoPending
  /\ \E x \in EndgameBallX, sx \in {-1, 1} :
       ballRef = [x |-> Px(x), y |-> Px(EndgameBallY),
                  dx |-> sx * Px(BALL_SPEED), dy |-> -Px(BALL_SPEED)]
  /\ platformXRef = InitialPlatformX
  /\ targetXRef = InitialPlatformX
  /\ handHistory = <<>>
  /\ avgX = 0
  /\ animationFrameRef = 1
  /\ rafQueue = {[id |-> 1, blocks |-> blocks]}
  /\ ticks = 0
  /\ delivered = 0
  /\ handless = 0
  /\ stale = 0
  /\ resetFrom = "menu"
  /\ pushed = <<>>

FrameEndgame ==
  /\ ticks < MaxEndTicks
  /\ pending # NoPending => stale < MaxStale
  /\ \E cb \in rafQueue : Animate(cb)

NextEndgame == FrameEndgame \/ Commit \/ ResetGame \/ BackToMenu \/ Pose

SpecEndgame == InitEndgame /\ [][NextEndgame]_vars

---------------------------------------------------------------------------
(* The smoother alone: samples pushed while playing, no frame in between   *)

\* the samples of the worked example, and two outside the field, in pixels
SmootherSamples == {10, 20, 30, 40, 50, 60, -60, 660}

InitSmoother ==
  /\ gameState = "playing"
  /\ score = 0
  /\ blocks = initBlocks
  /\ pending = NoPending
  /\ ballRef = InitialBall
  /\ platformXRef = InitialPlatformX
  /\ targetXRef = InitialPlatformX
  /\ handHistory = <<>>
  /\ avgX = 0
  /\ animationFrameRef = 1
  /\ rafQueue = {[id |-> 1, blocks |-> initBlocks]}
  /\ ticks = 0
  /\ delivered = 0
  /\ handless = 0
  /\ stale = 0
  /\ resetFrom = "menu"
  /\ pushed = <<>>

NextSmoother == delivered < MaxPush /\ \E x \in SmootherSamples : OnResults(Px(x))

SpecSmoother == InitSmoother /\ [][NextSmoother]_vars

---------------------------------------------------------------------------
(* The paddle rebound: snapshots of a session with the ball one frame above *)
(* the paddle's top, coming down at the launch velocity, straight down      *)
(* after a centre rebound, or slanted after an off-centre one; the paddle   *)
(* rests at its target.                                                     *)

\* frames simulated from a snapshot above the paddle
MaxPaddleTicks == 3

\* where the paddle rests, in pixels: left end, centre, right end
PaddleRests == {0, (WIDTH - PLATFORM_WIDTH) \div 2, WIDTH - PLATFORM_WIDTH}

\* where the ball's centre arrives, relative to the paddle's centre, in
\* pixels: on the paddle, on its edges, overhanging them, and past them
PaddleOffsets ==
  {0, PLATFORM_WIDTH \div 4, -(PLATFORM_WIDTH \div 4),
   PLATFORM_WIDTH \div 2, -(PLATFORM_WIDTH \div 2),
   (PLATFORM_WIDTH + BALL_SIZE) \div 2, -((PLATFORM_WIDTH + BALL_SIZE) \div 2),
   PLATFORM_WIDTH \div 2 + BALL_SIZE, -(PLATFORM_WIDTH \div 2 + BALL_SIZE)}

\* the velocities the ball comes down with, in steps: the launch speed to
\* either side, and rebounds of that speed at 0, +60 and -60 degrees
PaddleVelocities ==
  {<<Px(BALL_SPEED), Px(BALL_SPEED)>>, <<-Px(BALL_SPEED), Px(BALL_SPEED)>>,
   <<0, Speed([dx |-> Px(BALL_SPEED), dy |-> Px(BALL_SPEED)])>>,
   <<RoundDiv(Speed([dx |-> Px(BALL_SPEED), dy |-> Px(BALL_SPEED)]) * Sin(PI_THIRD), TRIG),
     RoundDiv(Speed([dx |-> Px(BALL_SPEED), dy |-> Px(BALL_SPEED)]) * Cos(PI_THIRD), TRIG)>>,
   <<-RoundDiv(Speed([dx |-> Px(BALL_SPEED), dy |-> Px(BALL_SPEED)]) * Sin(PI_THIRD), TRIG),
     RoundDiv(Speed([dx |-> Px(BALL_SPEED), dy |-> Px(BALL_SPEED)]) * Cos(PI_THIRD), TRIG)>>}

InitPaddle ==
  /\ gameState = "playing"
  /\ score = 0
  /\ blocks = initBlocks
  /\ pending = NoPending
  /\ \E rest \in PaddleRests, off \in PaddleOffsets, v \in PaddleVelocities :
       /\ platformXRef = Px(rest)
       /\ targetXRef = Px(rest)
       /\ ballRef = [x |-> Px(rest) + HalfPx(PLATFORM_WIDTH) + Px(off)
                             - HalfPx(BALL_SIZE) - v[1],
                     y |-> Px(PLATFORM_Y - BALL_SIZE) - v[2],
                     dx |-> v[1], dy |-> v[2]]
       /\ 0 <= ballRef.x
       /\ ballRef.x + Px(BALL_SIZE) <= Px(WIDTH)
  /\ handHistory = <<>>
  /\ avgX = 0
  /\ animationFrameRef = 1
  /\ rafQueue = {[id |-> 1, blocks |-> initBlocks]}
  /\ ticks = 0
  /\ delivered = 0
  /\ handless = 0
  /\ stale = 0
  /\ resetFrom = "menu"
  /\ pushed = <<>>

NextPaddle == ticks < MaxPaddleTicks /\ \E cb \in rafQueue : Animate(cb)

SpecPaddle == InitPaddle /\ [][NextPaddle]_vars

---------------------------------------------------------------------------
(* Claims                                                                  *)

\* what a frame step simulates
SimState == <<ballRef, platformXRef, targetXRef, blocks, score>>

\* the blocks of bl that are destroyed
DestroyedIn(bl) == {i \in 1..Len(bl) : bl[i]}

\* C1: while the state is Menu, GameOver or Victory (the code has no Paused
\* state) no frame callback is requested, nothing is queued, and no step
\* other than a reset changes the ball, the paddle position, the paddle
\* target, the blocks or the score: a hand sample delivered then moves nothing.
C1_FrozenOutsidePlaying ==
  [][gameState # "playing" =>
       /\ rafQueue = {}
       /\ pending = NoPending
       /\ gameState' # "playing" => (SimState' = SimState /\ ticks' = ticks)]_vars

\* C1: the game is over and a hand sample was delivered outside Playing
C1_Witness ==
  /\ gameState = "gameover"
  /\ delivered = 1
  /\ pushed = <<>>

\* C2: a frame that destroys blocks and leaves none queues Victory in that
\* same frame, requests no further frame, and adds exactly ten points for each
\* block it destroyed; the render of that queue shows Victory with that score.
C2_LastBlockVictory ==
  [][/\ (ticks' = ticks + 1 /\ pending'.score # pending.score
           /\ AllDestroyed(pending'.blocks))
        => /\ gameState = "playing"
           /\ pending'.gameState = "victory"
           /\ pending'.score = pending.score
                + 10 * Cardinality(DestroyedIn(pending'.blocks) \ DestroyedIn(blocks))
           /\ rafQueue' = {}
     /\ (pending.gameState = "victory" /\ pending' = NoPending /\ gameState' # "menu")
        => /\ gameState' = "victory"
           /\ score' = score + pending.score
           /\ AllDestroyed(blocks')]_vars

\* C2: a frame destroyed the last two blocks at once and queued Victory
C2_Witness ==
  /\ pending.gameState = "victory"
  /\ pending.score = 20
  /\ Cardinality(DestroyedIn(blocks)) = NBlocks - 2

\* C3: a frame that leaves the ball below the field, with blocks left, queues
\* GameOver and requests no further frame; the render of that queue shows
\* GameOver unless Back to Menu was clicked first; in GameOver and Victory no
\* frame callback is requested and nothing changes until resetGame.
C3_GameOverTerminal ==
  [][/\ (ticks' = ticks + 1 /\ ballRef'.y > Px(HEIGHT))
        => /\ rafQueue' = {}
           /\ \/ pending'.gameState = "gameover"
              \/ (pending'.gameState = "victory" /\ AllDestroyed(pending'.blocks))
     /\ (pending.gameState = "gameover" /\ pending' = NoPending)
        => gameState' \in {"gameover", "menu"}
     /\ gameState \in {"gameover", "victory"}
        => /\ rafQueue = {}
           /\ pending = NoPending
           /\ \/ gameState' = "playing" /\ ticks' = 0
              \/ SimState' = SimState /\ ticks' = ticks /\ gameState' = gameState]_vars

\* C3: the ball fell below the field with blocks left and the game is over
C3_Witness ==
  /\ gameState = "gameover"
  /\ ballRef.y > Px(HEIGHT)
  /\ ~AllDestroyed(blocks)
  /\ rafQueue = {}

InField(b) == 0 <= b.x /\ b.x <= Px(WIDTH - BALL_SIZE)

\* C5 as stated: a frame in which the ball touches neither the paddle nor a
\* block keeps the ball's x, if it was in [0, WIDTH - BALL_SIZE], in that
\* interval, and a ball the frame leaves at x <= 0 moves right afterwards.
C5_Original ==
  [][(/\ ticks' = ticks + 1
      /\ InField(ballRef)
      /\ ~PaddleHit(WallReflect(Integrate(ballRef)), platformXRef')
      /\ HitSet(WallReflect(Integrate(ballRef)), blocks) = {})
       => /\ InField(ballRef')
          /\ ballRef'.x <= 0 => ballRef'.dx > 0]_vars

\* C6 as stated: once a session has blocks, the score is ten times the number
\* of destroyed blocks.
C6_Original ==
  blocks # <<>> => score = 10 * Cardinality(DestroyedIn(blocks))

\* C7: at most one frame callback is requested at any time, it is the one the
\* stored handle names and it closes over the committed blocks; none is
\* requested once a frame has queued Victory or GameOver, nor while the state
\* is not Playing.
C7_OneFrameCallback ==
  /\ Cardinality(rafQueue) <= 1
  /\ \A c \in rafQueue : c.id = animationFrameRef /\ c.blocks = blocks
  /\ pending.gameState \in {"victory", "gameover"} => rafQueue = {}
  /\ gameState # "playing" => rafQueue = {}

\* C7: Back to Menu was clicked after a frame had destroyed a block and
\* re-requested itself, and no callback is left
C7_Witness ==
  /\ gameState = "menu"
  /\ score >= 10
  /\ animationFrameRef > 0
  /\ rafQueue = {}

\* C8 as stated: the return-to-menu action is accepted in Playing, GameOver
\* and Victory (in Menu it would change nothing; the code has no Paused).
C8_Original ==
  gameState \in {"playing", "gameover", "victory"} => ENABLED BackToMenu

\* C8 amended: the return-to-menu action is accepted exactly in Playing, where
\* it leads to Menu; Menu is entered from no other state, and GameOver and
\* Victory are left only by a restart.
C8_MenuOnlyFromPlaying ==
  /\ [](ENABLED BackToMenu <=> gameState = "playing")
  /\ [][/\ (gameState # "menu" /\ gameState' = "menu") => gameState = "playing"
        /\ (gameState = "playing" /\ gameState' # "playing" /\ pending = NoPending)
             => gameState' = "menu"
        /\ (gameState \in {"gameover", "victory"} /\ gameState' # gameState)
             => gameState' = "playing"]_vars

\* C8: Back to Menu was clicked during a session
C8_Witness ==
  /\ gameState = "menu"
  /\ resetFrom = "menu"
  /\ ticks > 0

RECURSIVE Total(_, _, _)
\* s[lo] + ... + s[hi]
Total(s, lo, hi) == IF lo > hi THEN 0 ELSE s[hi] + Total(s, lo, hi - 1)

\* C9: after k >= 1 pushes the history holds the last min(k, 5) samples
\* pushed, oldest first, and avgX is their arithmetic mean (to the nearest
\* fixed-point step); pushes 10, 20, 30, 40, 50, 60 leave avgX = 40.
C9_SlidingMean ==
  LET k == Len(pushed)
      n == IF k < 5 THEN k ELSE 5
  IN k >= 1 =>
       /\ Len(handHistory) = n
       /\ \A j \in 1..n : handHistory[j] = pushed[k - n + j]
       /\ 2 * Abs(avgX * n - Total(pushed, k - n + 1, k)) <= n
       /\ pushed = <<Px(10), Px(20), Px(30), Px(40), Px(50), Px(60)>>
            => avgX = Px(40)

\* C9: the worked example: six pushes, the oldest evicted, the mean 40
C9_Witness ==
  /\ pushed = <<Px(10), Px(20), Px(30), Px(40), Px(50), Px(60)>>
  /\ handHistory = <<Px(20), Px(30), Px(40), Px(50), Px(60)>>
  /\ avgX = Px(40)

\* C10: the paddle target and the paddle position are in
\* [0, WIDTH - PLATFORM_WIDTH] in every reachable state.
C10_PaddleInField ==
  /\ 0 <= targetXRef /\ targetXRef <= Px(500)
  /\ 0 <= platformXRef /\ platformXRef <= Px(500)

\* C10: a hand left of the field sent the target to the left edge and the
\* paddle has eased nearly all the way there
C10_Witness ==
  /\ pushed = <<Px(-60)>>
  /\ targetXRef = 0
  /\ platformXRef < Px(1)
  /\ ticks > 0

\* C11: within a session the score never goes down: every step that is not
\* a reset (a render of Playing from another state) leaves the rendered score,
\* and the score with the queued points added, at least as high as before.
C11_ScoreMonotone ==
  [][\/ (gameState # "playing" /\ gameState' = "playing")
     \/ /\ score' >= score
        /\ score' + pending'.score >= score + pending.score]_vars

\* C11: the score was raised twice in a session started from the menu
C11_Witness ==
  /\ gameState = "playing"
  /\ resetFrom = "menu"
  /\ score >= 20

\* C12: a pose result without a right-hand landmark pushes no sample into the
\* hand history and leaves the average and the paddle target as they were.
C12_NoHandNoSample ==
  [][handless' = handless + 1 =>
       /\ handHistory' = handHistory
       /\ avgX' = avgX
       /\ targetXRef' = targetXRef
       /\ pushed' = pushed]_vars

\* C12: a hand-less result was delivered while playing the late snapshot (no
\* restarted session scores that much in so few frames)
C12_Witness ==
  /\ gameState = "playing"
  /\ handless = 1
  /\ ticks > 0
  /\ score >= 10 * (NBlocks - 2)

\* the ball b touches no wall, not the paddle at p, and no block's box
NoCollision(b, p) ==
  /\ b.x > 0
  /\ b.x + Px(BALL_SIZE) < Px(WIDTH)
  /\ b.y > 0
  /\ ~PaddleHit(b, p)
  /\ \A i \in 1..NBlocks : ~Overlaps(b, i)

\* C13: the first frame after a reset finds the ball at the field's centre
\* with velocity (v, -v), v = BALL_SPEED, and leaves it at (x + v, y - v) with
\* the velocity unchanged; and every frame whose moved ball touches no wall,
\* paddle or block moves the ball by exactly its velocity and keeps the velocity.
C13_FreeFlight ==
  [][ticks' = ticks + 1 =>
       LET moved == [ballRef EXCEPT !.x = ballRef.x + ballRef.dx,
                                    !.y = ballRef.y + ballRef.dy]
       IN /\ ticks = 0 =>
               /\ ballRef = [x |-> HalfPx(WIDTH), y |-> HalfPx(HEIGHT),
                             dx |-> Px(BALL_SPEED), dy |-> -Px(BALL_SPEED)]
               /\ ballRef' = [x |-> HalfPx(WIDTH) + Px(BALL_SPEED),
                              y |-> HalfPx(HEIGHT) - Px(BALL_SPEED),
                              dx |-> Px(BALL_SPEED), dy |-> -Px(BALL_SPEED)]
          /\ NoCollision(moved, platformXRef') => ballRef' = moved]_vars

\* C13: one frame after the reset, the ball is one step up and to the right
C13_Witness ==
  /\ gameState = "playing"
  /\ ticks = 1
  /\ ballRef.x = HalfPx(WIDTH) + Px(BALL_SPEED)
  /\ ballRef.y = HalfPx(HEIGHT) - Px(BALL_SPEED)
  /\ ballRef.dx = Px(BALL_SPEED)
  /\ ballRef.dy = -Px(BALL_SPEED)

\* the ball as it arrives at the paddle test of this frame: moved, and
\* reflected by the walls
Arrived == WallReflect(Integrate(ballRef))

\* s is the whole number of steps nearest to the square root of n
NearestRoot(s, n) ==
  /\ s >= 0
  /\ (2 * s - 1) * (2 * s - 1) <= 4 * n
  /\ 4 * n <= (2 * s + 1) * (2 * s + 1)

\* C14: a frame in which the ball hits the paddle with its centre exactly
\* above the paddle's centre (hit point 0) leaves the ball with dx = 0 and
\* dy = -speed, speed being the magnitude of the velocity it arrived with.
C14_CentreHit ==
  [][(/\ ticks' = ticks + 1
      /\ PaddleHit(Arrived, platformXRef')
      /\ Arrived.x + HalfPx(BALL_SIZE) = platformXRef' + HalfPx(PLATFORM_WIDTH))
     => /\ ballRef'.dx = 0
        /\ NearestRoot(-ballRef'.dy,
                       Arrived.dx * Arrived.dx + Arrived.dy * Arrived.dy)]_vars

\* C14: the ball hit the paddle dead centre and now rises straight up from
\* the paddle's top at the speed it arrived with
C14_Witness ==
  /\ ticks = 1
  /\ ballRef.y = Px(PLATFORM_Y - BALL_SIZE)
  /\ ballRef.x + HalfPx(BALL_SIZE) = platformXRef + HalfPx(PLATFORM_WIDTH)
  /\ ballRef.dx = 0
  /\ ballRef.dy = -Speed([dx |-> Px(BALL_SPEED), dy |-> Px(BALL_SPEED)])

\* C15: a frame destroys at most one block, wherever the ball is.
C15_Original ==
  [][ticks' = ticks + 1 =>
       /\ pending'.score - pending.score <= 10
       /\ pending'.hasBlocks =>
            Cardinality(DestroyedIn(pending'.blocks) \ DestroyedIn(blocks)) <= 1]_vars

\* C16: whenever the paddle collision triggers, the hit point normalized by
\* half the paddle's width is in [-1, 1] and the rebound angle within 60
\* degrees of the vertical.
C16_Original ==
  [][(ticks' = ticks + 1 /\ PaddleHit(Arrived, platformXRef'))
     => /\ Abs(HitPoint(Arrived, platformXRef')) <= HalfPx(PLATFORM_WIDTH)
        /\ Abs(HitAngle(Arrived, platformXRef')) <= PI_THIRD]_vars

\* the ball as it arrives at the blocks of this frame: moved, reflected by
\* the walls and by the paddle
AtBlocks == PaddleCollide(Arrived, platformXRef')

\* the rendered, non-destroyed blocks whose box the box of ball b overlaps
Touched(b) == {i \in 1..Len(blocks) : ~blocks[i] /\ Overlaps(b, i)}

\* of those, the blocks for which halfW * dy_c > halfH * dx_c
TouchedAcross(b) ==
  {i \in Touched(b) : HalfW * CenterDy(b, i) > HalfH * CenterDx(b, i)}

\* v negated n times
Negated(v, n) == IF n % 2 = 1 THEN -v ELSE v

\* C17: a frame whose ball overlaps non-destroyed blocks negates, for each
\* such block, exactly one velocity component (dy if halfW * dy_c >
\* halfH * dx_c, dx otherwise) and queues the block as destroyed, with ten
\* points for it; a frame overlapping one block negates exactly one component.
C17_BlockReflect ==
  [][(ticks' = ticks + 1 /\ Touched(AtBlocks) # {})
     => LET hits == Touched(AtBlocks)
            across == TouchedAcross(AtBlocks)
        IN /\ ballRef'.dy = Negated(AtBlocks.dy, Cardinality(across))
           /\ ballRef'.dx = Negated(AtBlocks.dx, Cardinality(hits \ across))
           /\ ballRef'.x = AtBlocks.x
           /\ ballRef'.y = AtBlocks.y
           /\ pending'.hasBlocks
           /\ \A i \in hits : pending'.blocks[i]
           /\ pending'.score = pending.score + 10 * Cardinality(hits)]_vars

\* C17: a frame has just hit one block from the side: the block is queued
\* as destroyed and the ball, still inside its box, still moves up
C17_Witness ==
  /\ gameState = "playing"
  /\ pending.hasBlocks
  /\ pending.score = 10
  /\ stale = 0
  /\ ballRef.dy < 0
  /\ \E i \in 1..NBlocks :
       /\ ~blocks[i]
       /\ pending.blocks[i]
       /\ Overlaps(ballRef, i)
       /\ HalfW * CenterDy(ballRef, i) <= HalfH * CenterDx(ballRef, i)

====
